---- MODULE Spec2Model ----
(***************************************************************************)
(* File-format conversion gateway (Express server).                        *)
(*                                                                         *)
(* The model follows the deployed server source (the 790-line variant with *)
(* the unoconv / libreoffice-convert / Ghostscript+Pandoc chain).          *)
(*   - POST /api/convert: multer upload, batch validation, the sequential  *)
(*     per-item loop, the response and the upload cleanup;                 *)
(*   - the converters convertImage, convertPdf, convertDocument,           *)
(*     convertMedia, convertArchive, convertEbook as a call stack of       *)
(*     frames, one step per await;                                         *)
(*   - the filesystem as the set of existing paths.                        *)
(* External tools (sharp, svgo, pdfkit, pdf2pic, unoconv, ffmpeg, 7z, ...)  *)
(* are opaque: an invocation either succeeds and writes its output or      *)
(* fails, chosen nondeterministically.                                     *)
(***************************************************************************)
EXTENDS Integers, Sequences, FiniteSets, TLC

(***************************************************************************)
(* Bounds of the model.                                                    *)
(***************************************************************************)
\* largest batch that is followed through the per-item loop
MaxBatch == 2
\* largest value Date.now() returns (the clock starts at 0)
MaxNow == 1
\* largest number of converter frames on the call stack
MaxDepth == 4

(***************************************************************************)
(* Program constants and static tables.                                    *)
(***************************************************************************)
\* upload.array('files', 5)
MaxFiles == 5
\* cleanupFiles: const maxRetries = 3
MaxRetries == 3
\* cleanupFiles: const retryDelay = 1000 (milliseconds)
RetryDelay == 1000

imageFormats ==
  {"bmp", "eps", "gif", "ico", "png", "svg", "tga", "tiff", "wbmp", "webp", "jpg", "jpeg"}
documentFormats == {"pdf", "docx", "txt", "rtf", "odt"}
audioFormats ==
  {"mp3", "wav", "aac", "flac", "ogg", "opus", "wma", "aiff", "m4v", "mmf", "3g2"}
videoFormats == {"mp4", "avi", "mov", "webm", "mkv", "flv", "wmv"}
archiveFormats == {"zip", "7z"}
ebookFormats == {"epub", "mobi", "azw3"}

allFormats ==
  imageFormats \cup documentFormats \cup audioFormats \cup videoFormats
    \cup archiveFormats \cup ebookFormats

ConversionTypes ==
  {"image", "compressor", "pdfs", "audio", "video", "document", "archive", "ebook"}

supportedFormats(type) ==
  IF type = "compressor" THEN {"jpg", "png", "svg"} ELSE allFormats

sharpSupported == {"bmp", "gif", "png", "tiff", "webp", "jpg", "jpeg"}
pdfRasterFormats == {"jpg", "png", "gif"}
pdfDocumentFormats == {"docx", "txt", "rtf", "odt"}
supportedDocumentFormats == {"docx", "pdf", "txt", "rtf", "odt"}
supportedAudioFormats ==
  {"aac", "aiff", "flac", "m4v", "mmf", "ogg", "opus", "wav", "wma", "3g2", "mp3"}
supportedVideoFormats == {"mp4", "avi", "mov", "webm", "mkv", "flv", "wmv", "3g2"}
audioInputs == {"mp3", "wav", "aac", "flac", "ogg", "opus", "wma", "aiff", "mmf"}

uploadsDir == "/app/Uploads"
convertedDir == "/app/converted"
tempDir == "/app/tmp"

(***************************************************************************)
(* Inputs the model enumerates.                                            *)
(***************************************************************************)
\* extensions of the original names of uploaded files ("exe" is not allowed)
SentExts == {"png", "docx", "pdf", "mp3", "exe"}
\* base names of the original names
SentBases == {"file"}
\* descriptors {type, target, subSection} of the formats array; the target
\* is the lower-cased first word; "bogus" is no key of the table, "exe" no
\* supported format
Descriptor(type, target, sub) == [type |-> type, target |-> target, sub |-> sub]
SentDescriptors ==
  {Descriptor("image", "png", "none"), Descriptor("document", "docx", "none"),
   Descriptor("pdfs", "png", "none"), Descriptor("pdfs", "zip", "none"),
   Descriptor("audio", "mp4", "none"), Descriptor("ebook", "epub", "none"),
   Descriptor("image", "svg", "none"), Descriptor("image", "exe", "none"),
   Descriptor("bogus", "png", "none")}
    \cup {Descriptor("compressor", tg, "compressor") : tg \in {"png", "svg", "docx"}}
    \cup {Descriptor("archive", tg, "none") : tg \in {"zip", "epub", "png"}}
\* target formats and subSections of a direct converter call
CallFormats == {"png", "svg", "pdf", "docx", "mp3", "mp4", "zip", "epub", "exe"}
CallSubSections == {"compressor", "none"}
\* number of files a request carries: up to MaxBatch, or one more than allowed
SentCounts == (0..MaxBatch) \cup {MaxFiles + 1}
\* the formats field: not JSON, the JSON value null, a JSON object, or an array
Payloads ==
  {[kind |-> "invalid", len |-> 0], [kind |-> "null", len |-> 0],
   [kind |-> "object", len |-> 0]}
    \cup {[kind |-> "array", len |-> m] : m \in 0..(MaxBatch + 1)}
\* extensions of the input path of a direct converter call ("" is no extension)
CallExts == {"", "png", "svg", "docx", "pdf"}
\* the inputExt argument of a direct call of convertMedia
CallInputExts == {"mp3", "m4v", "mp4"}
ConverterFns ==
  {"convertImage", "convertPdf", "convertDocument", "convertMedia",
   "convertArchive", "convertEbook"}

(***************************************************************************)
(* Paths: directory, stem, a number (upload index or timestamp), extension.*)
(***************************************************************************)
NoPath == [dir |-> "", stem |-> "", n |-> 0, ext |-> ""]

\* multer, dest: uploadsDir - a random name without extension, one per file
UploadPath(k) == [dir |-> uploadsDir, stem |-> "upload", n |-> k, ext |-> ""]

\* path.join(convertedDir, `${sanitized base}_${Date.now()}.${outputExt}`)
OutputPath(base, t, outputExt) ==
  [dir |-> convertedDir, stem |-> base, n |-> t, ext |-> outputExt]

\* path.extname(p).toLowerCase().slice(1)
PathExt(p) == p.ext

VARIABLES
  hpc,          \* position of the request handler
  nSent,        \* number of files the request carries
  payload,      \* the formats field of the request body
  files,        \* req.files: the files multer stored, in order
  idx,          \* loop index i of the handler
  cur,          \* the item being processed: descriptor and output path
  outputFiles,  \* descriptors pushed for the items converted so far
  responses,    \* responses sent for the request
  thrown,       \* errors thrown out of the per-item loop: <<item, error>>
  invoked,      \* items for which an external tool was started
  stages,       \* leaf conversions started by the current top-level call
  temps,        \* intermediate PDF paths allocated by the current call
  fs,           \* the paths that exist
  now,          \* last value Date.now() returned
  stack,        \* converter call stack, top frame last
  ret,          \* result of the converter call that returned last
  cleanup,      \* cleanupFiles: per path, attempts, delay and outcome
  cleaned,      \* the outcomes of the cleanupFiles calls that have returned
  build,        \* which server source is running
  served,       \* files sent by GET /converted, answers of DELETE /api/delete
  peer,         \* the two-stage conversion of a concurrent request
  boot,         \* the startup of the server: startLibreOffice, then listen
  eng           \* one attempt of a fallback engine of convertDocument

vars ==
  <<hpc, nSent, payload, files, idx, cur, outputFiles, responses, thrown,
    invoked, stages, temps, fs, now, stack, ret, cleanup, cleaned, build, served,
    peer, boot, eng>>

handlerVars ==
  <<hpc, nSent, payload, files, idx, cur, outputFiles, responses, thrown, cleanup>>

\* The repository holds two sources of the server.  The request handler and
\* the converters below follow src/unnamed/part_001; where src/server.js
\* differs in a converter, the definition says so.  LIBREOFFICE_PATH, which
\* src/server.js requires, is set by the Dockerfile.
Builds == {"part_001", "server.js"}

Legacy == build = "server.js"

\* where a two-stage conversion puts its intermediate PDF:
\*   part_001:  path.join(tempDir, `temp_${Date.now()}.pdf`)
\*   server.js: path.join(convertedDir, `temp_${Date.now()}.pdf`)
ScratchDir == IF Legacy THEN convertedDir ELSE tempDir

TempPdfPath(t) == [dir |-> ScratchDir, stem |-> "temp", n |-> t, ext |-> "pdf"]


(***************************************************************************)
(* Errors, results and converter frames.                                   *)
(* An error is its message: a kind, and the tools whose own failure        *)
(* message is embedded in the text (`${err.message}`), and the values the  *)
(* text interpolates (args).                                               *)
(***************************************************************************)
NoErr == [kind |-> "", tools |-> <<>>, args |-> <<>>]

Error(kind, tools) == [kind |-> kind, tools |-> tools, args |-> <<>>]

\* `${x}` in a message: the digits of a number, or the text "undefined"
Interpolated(isNumber, n) == [num |-> isNumber, n |-> n]

ErrorNaming(kind, args) == [kind |-> kind, tools |-> <<>>, args |-> args]

\* the result of a returned call, with what the call did: the tools it
\* started (att), those that failed (fails), its intermediate PDF (tmp)
\* startLibreOffice: const maxRetries = 5
StartMaxRetries == 5
\* the pause after a failed start attempt, in ms
StartPause == 5000
\* the delay of app.listen after startLibreOffice has returned, in ms
ListenDelay == 5000

\* the server has started and listens
Booted == [pc |-> "listening", attempts |-> 0, log |-> <<"ok">>, waited |-> ListenDelay]

\* no engine attempt under way
NoEngine ==
  [fn |-> "", pc |-> "idle", inp |-> NoPath, out |-> NoPath, tmp |-> NoPath,
   log |-> <<>>, result |-> "none"]

\* no concurrent conversion
NoPeer == [pc |-> "idle", tmp |-> NoPath]

NoRet ==
  [status |-> "none", err |-> NoErr, fn |-> "", att |-> <<>>, fails |-> <<>>,
   twoStage |-> FALSE, tmp |-> NoPath, unlinkFailed |-> FALSE]

Frame(fn, inp, out, fmt, sub, iext) ==
  [fn |-> fn, inp |-> inp, out |-> out, fmt |-> fmt, sub |-> sub, iext |-> iext,
   pc |-> "start", tmp |-> NoPath, tool |-> "", att |-> <<>>, fails |-> <<>>]

Top == stack[Len(stack)]

Rest == SubSeq(stack, 1, Len(stack) - 1)

ReplaceTop(f) == [stack EXCEPT ![Len(stack)] = f]

\* the frame f returns normally
Returned(f, unlinkFailed) ==
  [status |-> "ok", err |-> NoErr, fn |-> f.fn, att |-> f.att, fails |-> f.fails,
   twoStage |-> f.tmp # NoPath, tmp |-> f.tmp, unlinkFailed |-> unlinkFailed]

\* the frame f throws e
Thrown(f, e) ==
  [status |-> "err", err |-> e, fn |-> f.fn, att |-> f.att, fails |-> f.fails,
   twoStage |-> f.tmp # NoPath, tmp |-> f.tmp, unlinkFailed |-> FALSE]

(***************************************************************************)
(* What each converter does on entry, as a plan:                           *)
(*   twoStage  allocate temp_<now>.pdf, run `first` into it, then `second` *)
(*   tool      invoke an external tool on the input                        *)
(*   delegate  await another converter with the same arguments             *)
(*   throw     reject                                                      *)
(***************************************************************************)
TwoStage(first, second) ==
  [kind |-> "twoStage", first |-> first, second |-> second, tool |-> "", err |-> NoErr]

UseTool(tool) ==
  [kind |-> "tool", first |-> "", second |-> "", tool |-> tool, err |-> NoErr]

Delegate(to) ==
  [kind |-> "delegate", first |-> to, second |-> "", tool |-> "", err |-> NoErr]

Reject(kind) ==
  [kind |-> "throw", first |-> "", second |-> "", tool |-> "", err |-> Error(kind, <<>>)]

ImagePlan(inputExt, format, subSection) ==
  IF inputExt \notin imageFormats /\ inputExt \in documentFormats
    THEN TwoStage("convertDocument", "convertImage")
  ELSE IF format \in imageFormats
    THEN IF subSection = "compressor" /\ format = "svg" THEN UseTool("svgo")
         ELSE IF format \in sharpSupported THEN UseTool("sharp")
         ELSE IF Legacy THEN UseTool("imagemagick")
         ELSE Reject("Unsupported image format for Sharp")
  ELSE IF format = "pdf" THEN UseTool(IF Legacy THEN "imagemagick" ELSE "pdfkit")
  ELSE Reject("Unsupported image output format")

\* (variant: every format that is no document format goes to pdf2pic)
PdfPlanNoFormatCheck(inputExt, format) ==
  IF inputExt # "pdf" THEN TwoStage("convertDocument", "convertPdf")
  ELSE IF format \in pdfDocumentFormats THEN Delegate("convertDocument")
  ELSE UseTool("pdf2pic")

PdfPlan(inputExt, format) ==
  IF inputExt # "pdf" THEN TwoStage("convertDocument", "convertPdf")
  ELSE IF format \in pdfRasterFormats
    THEN UseTool(IF Legacy THEN "imagemagick" ELSE "pdf2pic")
  ELSE IF format \in pdfDocumentFormats THEN Delegate("convertDocument")
  ELSE Reject("Unsupported PDF output format")

DocumentPlan(inputExt, format) ==
  IF inputExt \in imageFormats THEN TwoStage("convertImage", "convertDocument")
  ELSE IF format \notin supportedDocumentFormats
    THEN Reject("Unsupported output document format")
  ELSE UseTool("unoconv")

MediaPlan(format) ==
  IF format \notin supportedAudioFormats /\ format \notin supportedVideoFormats
    THEN Reject("Unsupported media output format")
  ELSE UseTool("fluent-ffmpeg")

\* (variant: the packer is run whatever the format)
ArchivePlanAnyFormat(format) == UseTool("7z")

ArchivePlan(format) ==
  IF format = "zip" \/ format = "7z" THEN UseTool("7z")
  ELSE Reject("Unsupported archive format")

EbookPlan(format) == UseTool("ebook-convert")

\* the stage-1 call of a two-stage plan: source -> intermediate PDF
FirstStage(f, fn, tmp) ==
  Frame(fn, f.inp, tmp, "pdf", IF fn = "convertImage" THEN "image" ELSE "none", f.iext)

\* the stage-2 call of a two-stage plan: intermediate PDF -> target
SecondStage(f, fn) == Frame(fn, f.tmp, f.out, f.fmt, f.sub, f.iext)

(***************************************************************************)
(* What follows the failure of a tool in the frame f.                      *)
(***************************************************************************)
Retry(tool) == [kind |-> "retry", tool |-> tool, err |-> NoErr]

GiveUp(e) == [kind |-> "throw", tool |-> "", err |-> e]

\* the engines of convertDocument, in the order of its try blocks
DocumentEngines == <<"unoconv", "libreoffice-convert", "ghostscript-pandoc">>

\* (variant: Ghostscript+Pandoc is tried before libreoffice-convert)
DocumentFallbackSwapped(tool) ==
  IF tool = "unoconv" THEN Retry("ghostscript-pandoc")
  ELSE IF tool = "ghostscript-pandoc" THEN Retry("libreoffice-convert")
  ELSE GiveUp(Error("Document conversion failed after all attempts", <<>>))

\* convertDocument: unoconv, then libreoffice-convert, then Ghostscript+Pandoc
\* (src/server.js runs unoconv only)
DocumentFallback(tool) ==
  IF Legacy THEN GiveUp(Error("Document conversion failed", <<tool>>))
  ELSE IF tool = "unoconv" THEN Retry("libreoffice-convert")
  ELSE IF tool = "libreoffice-convert" THEN Retry("ghostscript-pandoc")
  ELSE GiveUp(Error("Document conversion failed after all attempts", <<>>))

\* convertMedia: fluent-ffmpeg, then a direct ffmpeg command line
\* (src/server.js runs fluent-ffmpeg only)
MediaFallback(tool) ==
  IF tool = "fluent-ffmpeg" /\ ~Legacy THEN Retry("ffmpeg-exec")
  ELSE GiveUp(Error("Media conversion failed", <<tool>>))

OnToolFailure(f) ==
  CASE f.fn = "convertDocument" -> DocumentFallback(f.tool)
    [] f.fn = "convertMedia" -> MediaFallback(f.tool)
    [] f.fn = "convertPdf" -> GiveUp(Error("PDF to image conversion failed", <<f.tool>>))
    [] f.fn = "convertArchive" -> GiveUp(Error("Archive conversion failed", <<f.tool>>))
    [] f.fn = "convertEbook" -> GiveUp(Error("Ebook conversion failed", <<f.tool>>))
    [] OTHER ->
         IF f.tool = "svgo" THEN GiveUp(Error("SVG compression failed", <<f.tool>>))
         ELSE IF f.tool = "pdfkit"
           THEN GiveUp(Error("Image to PDF conversion failed", <<f.tool>>))
         ELSE IF f.tool = "imagemagick"
           THEN GiveUp(Error(IF f.fmt = "pdf" THEN "Image to PDF conversion failed"
                             ELSE "Image conversion failed", <<f.tool>>))
         ELSE GiveUp(Error("sharp error", <<f.tool>>))

\* isVideoOutput && isAudioInput
SynthesizesVideo(inputExt, format) ==
  inputExt \in audioInputs /\ format \in supportedVideoFormats

\* the inputs of the ffmpeg command a tool of convertMedia runs: the source,
\* and with fluent-ffmpeg the lavfi input color=c=black:s=320x240:r=25 when
\* video is synthesized; the direct command line has the one -i input
FfmpegInputs(tool, inputExt, format) ==
  IF tool = "fluent-ffmpeg" /\ SynthesizesVideo(inputExt, format)
    THEN {"source", "black-video"}
    ELSE {"source"}

\* how a tool invocation can end; only the unoconv command of part_001 is
\* run under a timeout
ToolOutcomes(tool) ==
  IF tool = "unoconv" /\ ~Legacy THEN {"ok", "fail", "timeout"} ELSE {"ok", "fail"}

(***************************************************************************)
(* Converter steps.  A converter runs as the top frame of the stack.       *)
(***************************************************************************)
Running(fn) == stack # <<>> /\ Top.fn = fn /\ Top.pc = "start"

\* Carry out the plan of the frame on top of the stack.
Begin(plan) ==
  LET f == Top IN
  /\ plan.kind \in {"twoStage", "delegate"} => Len(stack) < MaxDepth
  /\ \E t \in now..MaxNow :
       LET tmp == TempPdfPath(t) IN
       /\ now' = IF plan.kind = "twoStage" THEN t ELSE now
       /\ temps' = IF plan.kind = "twoStage" THEN Append(temps, tmp) ELSE temps
       /\ stack' =
            CASE plan.kind = "twoStage" ->
                   Append(ReplaceTop([f EXCEPT !.pc = "s1", !.tmp = tmp]),
                          FirstStage(f, plan.first, tmp))
              [] plan.kind = "delegate" ->
                   Append(ReplaceTop([f EXCEPT !.pc = "tail"]),
                          Frame(plan.first, f.inp, f.out, f.fmt, f.sub, f.iext))
              [] plan.kind = "tool" ->
                   ReplaceTop([f EXCEPT !.pc = "tool", !.tool = plan.tool])
              [] OTHER -> Rest
       /\ ret' = IF plan.kind = "throw" THEN Thrown(f, plan.err) ELSE NoRet
  /\ UNCHANGED <<handlerVars, invoked, stages, fs>>
  /\ UNCHANGED <<cleaned, build, served, peer, boot, eng>>

ConvertImage ==
  /\ Running("convertImage")
  /\ Begin(ImagePlan(PathExt(Top.inp), Top.fmt, Top.sub))

ConvertPdf ==
  /\ Running("convertPdf")
  /\ Begin(PdfPlan(PathExt(Top.inp), Top.fmt))

ConvertDocument ==
  /\ Running("convertDocument")
  /\ Begin(DocumentPlan(PathExt(Top.inp), Top.fmt))

ConvertMedia ==
  /\ Running("convertMedia")
  /\ Begin(MediaPlan(Top.fmt))

ConvertArchive ==
  /\ Running("convertArchive")
  /\ Begin(ArchivePlan(Top.fmt))

ConvertEbook ==
  /\ Running("convertEbook")
  /\ Begin(EbookPlan(Top.fmt))

\* An external tool (or library call) is started on the frame's input.
ToolStart ==
  /\ stack # <<>> /\ Top.pc = "tool"
  /\ LET f == Top IN
     /\ stack' = ReplaceTop([f EXCEPT !.pc = "running", !.att = Append(f.att, f.tool)])
     /\ stages' =
          IF f.att = <<>>
            THEN Append(stages, [fn |-> f.fn, from |-> PathExt(f.inp), to |-> f.fmt])
            ELSE stages
  /\ invoked' = invoked \cup {idx}
  /\ UNCHANGED <<handlerVars, temps, fs, now, ret>>
  /\ UNCHANGED <<cleaned, build, served, peer, boot, eng>>

\* The tool ends: it wrote its output, or it failed (exit code, timeout,
\* exception), possibly leaving a partial output behind.
ToolFinish ==
  /\ stack # <<>> /\ Top.pc = "running"
  /\ \E outcome \in ToolOutcomes(Top.tool), partial \in BOOLEAN :
       LET f == IF outcome = "ok" THEN Top
                ELSE [Top EXCEPT !.fails = Append(Top.fails, Top.tool)]
           next == OnToolFailure(f)
       IN /\ outcome = "ok" => f.inp \in fs /\ ~partial
          /\ fs' = IF outcome = "ok" \/ partial THEN fs \cup {f.out} ELSE fs
          /\ IF outcome = "ok"
               THEN stack' = Rest /\ ret' = Returned(f, FALSE)
             ELSE IF next.kind = "retry"
               THEN /\ stack' = ReplaceTop([f EXCEPT !.pc = "tool", !.tool = next.tool])
                    /\ ret' = NoRet
             ELSE /\ stack' = Rest
                  /\ ret' = Thrown(f, next.err)
  /\ UNCHANGED <<handlerVars, invoked, stages, temps, now>>
  /\ UNCHANGED <<cleaned, build, served, peer, boot, eng>>

\* The converter awaited by the frame on top of the stack has settled.
\*   after stage 1: on success stage 2 is called, on error the catch rethrows;
\*   after stage 2: on success the intermediate PDF is unlinked (an unlink
\*     error is caught and logged), on error the catch rethrows;
\*   after a delegated call (convertPdf -> convertDocument): its result is
\*     the caller's result.
Resume ==
  /\ stack # <<>> /\ Top.pc \in {"s1", "s2", "tail"} /\ ret.status # "none"
  /\ LET f == Top IN
     IF ret.status # "ok"
       THEN /\ stack' = Rest
            /\ ret' = Thrown(f, ret.err)
            /\ fs' = fs
     ELSE IF f.pc = "s1"
       THEN /\ stack' = Append(ReplaceTop([f EXCEPT !.pc = "s2"]), SecondStage(f, f.fn))
            /\ ret' = NoRet
            /\ fs' = fs
     ELSE IF f.pc = "s2"
       THEN \E unlinked \in BOOLEAN :
              /\ unlinked => f.tmp \in fs
              /\ fs' = IF unlinked THEN fs \ {f.tmp} ELSE fs
              /\ stack' = Rest
              /\ ret' = Returned(f, ~unlinked)
     ELSE /\ stack' = Rest
          /\ ret' = Returned(f, FALSE)
          /\ fs' = fs
  /\ UNCHANGED <<handlerVars, invoked, stages, temps, now>>
  /\ UNCHANGED <<cleaned, build, served, peer, boot, eng>>

ConverterStep ==
  \/ ConvertImage
  \/ ConvertPdf
  \/ ConvertDocument
  \/ ConvertMedia
  \/ ConvertArchive
  \/ ConvertEbook
  \/ ToolStart
  \/ ToolFinish
  \/ Resume

(***************************************************************************)
(* Direct calls: one converter called on an arbitrary input path.          *)
(***************************************************************************)
CallInput(ext) == [dir |-> "/data", stem |-> "input", n |-> 0, ext |-> ext]

CallOutput(ext) == OutputPath("input", 0, ext)

NoItem == [inputExt |-> "", type |-> "", target |-> "", sub |-> "", out |-> NoPath]

\* a converter is called, in a server running one of the sources bs
InitCallIn(bs) ==
  /\ hpc = "called"
  /\ nSent = 0
  /\ payload = [kind |-> "array", len |-> 0]
  /\ files = <<>>
  /\ idx = 0
  /\ cur = NoItem
  /\ outputFiles = <<>>
  /\ responses = <<>>
  /\ thrown = <<>>
  /\ invoked = {}
  /\ stages = <<>>
  /\ temps = <<>>
  /\ now = 0
  /\ ret = NoRet
  /\ cleanup = <<>>
  /\ cleaned = <<>>
  /\ build \in bs
  /\ served = {}
  /\ peer = NoPeer
  /\ boot = Booted
  /\ eng = NoEngine
  /\ \E fn \in ConverterFns, e \in CallExts, fmt \in CallFormats,
        sub \in CallSubSections, present \in BOOLEAN :
       \E ie \in (IF fn = "convertMedia" THEN CallInputExts
                  ELSE {IF e = "" THEN "unknown" ELSE e}) :
         /\ fs = IF present THEN {CallInput(e)} ELSE {}
         /\ stack = <<Frame(fn, CallInput(e), CallOutput(fmt), fmt, sub, ie)>>

InitCall == InitCallIn({"part_001"})

\* the call has returned to its caller
CallReturn ==
  /\ hpc = "called" /\ stack = <<>> /\ ret.status # "none"
  /\ hpc' = "returned"
  /\ UNCHANGED <<nSent, payload, files, idx, cur, outputFiles, responses, thrown,
                 cleanup, invoked, stages, temps, fs, now, stack, ret>>
  /\ UNCHANGED <<cleaned, build, served, peer, boot, eng>>

NextCall == ConverterStep \/ CallReturn

SpecCall == InitCall /\ [][NextCall]_vars

(***************************************************************************)
(* A converter call while a two-stage conversion of another request runs   *)
(* in the same server: the other conversion reads the same clock and       *)
(* shares the directory of intermediate PDFs.                              *)
(***************************************************************************)
\* const tempPdfPath = path.join(tempDir, `temp_${Date.now()}.pdf`)
PeerBegin ==
  /\ peer.pc = "idle"
  /\ \E t \in now..MaxNow :
       /\ peer' = [pc |-> "s1", tmp |-> TempPdfPath(t)]
       /\ now' = t
  /\ UNCHANGED <<handlerVars, invoked, stages, temps, fs, stack, ret,
                 cleaned, build, served, boot, eng>>

\* its first stage writes the intermediate PDF
PeerStageOne ==
  /\ peer.pc = "s1"
  /\ fs' = fs \cup {peer.tmp}
  /\ peer' = [peer EXCEPT !.pc = "s2"]
  /\ UNCHANGED <<handlerVars, invoked, stages, temps, now, stack, ret,
                 cleaned, build, served, boot, eng>>

\* its second stage ends: after a success the intermediate PDF is unlinked,
\* after a failure it stays
PeerStageTwo ==
  /\ peer.pc = "s2"
  /\ \E unlinked \in BOOLEAN : fs' = IF unlinked THEN fs \ {peer.tmp} ELSE fs
  /\ peer' = [peer EXCEPT !.pc = "done"]
  /\ UNCHANGED <<handlerVars, invoked, stages, temps, now, stack, ret,
                 cleaned, build, served, boot, eng>>

NextPeers == ConverterStep \/ CallReturn \/ PeerBegin \/ PeerStageOne \/ PeerStageTwo

SpecPeers == InitCall /\ [][NextPeers]_vars

(***************************************************************************)
(* POST /api/convert.                                                      *)
(***************************************************************************)
\* (variant: multer is configured without a fileFilter)
FileFilterAcceptsAny(ext) == TRUE

\* upload.fileFilter: the lower-cased extension must be in the allow-list
FileFilterAccepts(ext) == ext \in allFormats

\* (variant: the status is sent without a body)
ErrorResponseNoBody(by, status, err) ==
  [by |-> by, status |-> status, kind |-> "error", err |-> NoErr, files |-> <<>>]

\* a response: its status, whether express or the handler wrote it, the
\* error message of an error body, the descriptors of a success body
ErrorResponse(by, status, err) ==
  [by |-> by, status |-> status, kind |-> "error", err |-> err, files |-> <<>>]

FilesResponse(descriptors) ==
  [by |-> "handler", status |-> 200, kind |-> "files", err |-> NoErr,
   files |-> descriptors]

\* (variant: the files/formats count comparison is left out)
BatchCheckWithoutCountCheck(n, formats) ==
  IF formats.kind = "invalid"
    THEN [status |-> 400, err |-> Error("Invalid formats data", <<>>)]
  ELSE IF n = 0 THEN [status |-> 400, err |-> Error("No files uploaded", <<>>)]
  ELSE IF n > MaxFiles THEN [status |-> 400, err |-> Error("Maximum 5 files allowed", <<>>)]
  ELSE IF formats.kind = "null"
    THEN [status |-> 500, err |-> Error("TypeError: formats.length", <<>>)]
  ELSE [status |-> 200, err |-> NoErr]

\* formats.length in `Formats: ${formats.length}`: an array has a length,
\* a JSON object has no such property
FormatsLength(formats) ==
  IF formats.kind = "array" THEN Interpolated(TRUE, formats.len)
  ELSE Interpolated(FALSE, 0)

\* the checks before the loop; status 200 lets the batch through
BatchCheck(n, formats) ==
  IF formats.kind = "invalid"
    THEN [status |-> 400, err |-> Error("Invalid formats data", <<>>)]
  ELSE IF n = 0 THEN [status |-> 400, err |-> Error("No files uploaded", <<>>)]
  ELSE IF n > MaxFiles THEN [status |-> 400, err |-> Error("Maximum 5 files allowed", <<>>)]
  ELSE IF formats.kind = "null"
    THEN [status |-> 500, err |-> Error("TypeError: formats.length", <<>>)]
  ELSE IF formats.kind = "object" \/ n # formats.len
    THEN [status |-> 400,
          err |-> ErrorNaming("Mismatch between files and formats",
                              <<Interpolated(TRUE, n), FormatsLength(formats)>>)]
  ELSE [status |-> 200, err |-> NoErr]

\* path.extname(file.originalname).toLowerCase().slice(1) || 'unknown'
InputExtOf(ext) == IF ext = "" THEN "unknown" ELSE ext

\* the three per-item checks, in order; NoErr lets the item through
ItemCheck(type, outputExt, inputExt) ==
  IF type \notin ConversionTypes THEN Error("Unsupported conversion type", <<>>)
  ELSE IF outputExt \notin supportedFormats(type)
    THEN Error("Unsupported output format", <<>>)
  ELSE IF inputExt \notin allFormats THEN Error("Unsupported input format", <<>>)
  ELSE NoErr

\* (variant: the switch is on the declared type)
OutputTypeDeclared(outputExt, type) == type

\* const outputType = [...].includes(outputExt) ? ... : formatInfo.type
OutputType(outputExt, type) ==
  IF outputExt \in imageFormats THEN "image"
  ELSE IF outputExt \in documentFormats THEN "document"
  ELSE IF outputExt \in audioFormats THEN "audio"
  ELSE IF outputExt \in videoFormats THEN "video"
  ELSE type

\* switch (outputType): the converter awaited, "" for the default case
Dispatch(outputType) ==
  CASE outputType \in {"image", "compressor"} -> "convertImage"
    [] outputType = "document" -> "convertDocument"
    [] outputType = "pdfs" -> "convertPdf"
    [] outputType \in {"audio", "video"} -> "convertMedia"
    [] outputType = "archive" -> "convertArchive"
    [] outputType = "ebook" -> "convertEbook"
    [] OTHER -> ""

\* (variant: the filter keeps the paths under the converted directory)
CleanupTargetsUnderConverted(fl) == {k \in 1..Len(fl) : fl[k].path.dir = convertedDir}

\* tempFiles.filter(file => file.startsWith(uploadsDir)), as indexes of files
CleanupTargets(fl) == {k \in 1..Len(fl) : fl[k].path.dir = uploadsDir}

\* error.message || 'Conversion failed. ...'
CatchResponse(err) ==
  ErrorResponse("handler", 500,
                IF err.kind = "" THEN Error("Conversion failed", <<>>) ELSE err)

\* (variant: every descriptor carries the id of the first format entry)
OutputDescriptorFirstId(out, i) == [path |-> out, id |-> 0]

\* outputFiles.push({ path, name, id: formatInfo.id }): the name is the base
\* name of the path, the id is that of formats[i]
OutputDescriptor(out, i) == [path |-> out, id |-> i]

\* (variant: the converter's promise is not awaited)
AwaitResultNotAwaited == IF stack = <<>> /\ ret.status # "none" THEN ret.status ELSE "ok"

\* await convertX(...): the loop resumes when the converter has settled,
\* with its outcome; "none" while it runs
AwaitResult == IF stack = <<>> THEN ret.status ELSE "none"

\* (variant: the error is caught per item and the loop goes on)
AfterThrowContinue(i) == "item"

\* (variant: the catch block answers and returns, there is no finally block)
AfterThrowNoFinally(i) == "done"

\* where the loop goes when the item at index i threw: out of the loop
AfterThrow(i) == "cleanup"

Init ==
  /\ hpc = "multer"
  /\ nSent \in SentCounts
  /\ payload \in Payloads
  /\ files = <<>>
  /\ idx = 0
  /\ cur = NoItem
  /\ outputFiles = <<>>
  /\ responses = <<>>
  /\ thrown = <<>>
  /\ invoked = {}
  /\ stages = <<>>
  /\ temps = <<>>
  /\ fs = {}
  /\ now = 0
  /\ stack = <<>>
  /\ ret = NoRet
  /\ cleanup = <<>>
  /\ cleaned = <<>>
  /\ build = "part_001"
  /\ served = {}
  /\ peer = NoPeer
  /\ boot = Booted
  /\ eng = NoEngine

\* cleanupFiles is entered with the paths at the indexes ks: attempts = 0
EnterCleanup(ks) == [k \in ks |-> [attempts |-> 0, waited |-> 0, state |-> "pending"]]

\* The finally block starts cleanupFiles on the stored upload paths.
StartCleanup == cleanup' = EnterCleanup(CleanupTargets(files))

\* multer receives the next file of the request: it counts it against the
\* limit, asks the fileFilter and stores it; on an error it removes the files
\* stored so far and express answers, so that the handler never runs.
\* The extension of an accepted original name is not kept in the state: the
\* loop draws it again where it reads it, among the accepted extensions.
MulterFile ==
  /\ hpc = "multer" /\ Len(files) < nSent
  /\ \E e \in SentExts, b \in SentBases :
       LET k == Len(files) + 1
           err == IF Len(files) >= MaxFiles THEN Error("LIMIT_UNEXPECTED_FILE", <<>>)
                  ELSE IF ~FileFilterAccepts(e) THEN Error("Unsupported file type", <<>>)
                  ELSE NoErr
       IN IF err = NoErr
            THEN /\ files' = Append(files, [base |-> b, path |-> UploadPath(k)])
                 /\ fs' = fs \cup {UploadPath(k)}
                 /\ UNCHANGED <<hpc, responses>>
            ELSE /\ fs' = fs \ {files[j].path : j \in 1..Len(files)}
                 /\ responses' = Append(responses, ErrorResponse("express", 500, err))
                 /\ hpc' = "done"
                 /\ UNCHANGED files
  /\ UNCHANGED <<nSent, payload, idx, cur, outputFiles, thrown, cleanup,
                 invoked, stages, temps, now, stack, ret>>
  /\ UNCHANGED <<cleaned, build, served, peer, boot, eng>>

\* All files are stored: the handler is entered.
MulterDone ==
  /\ hpc = "multer" /\ Len(files) = nSent
  /\ hpc' = "validate"
  /\ UNCHANGED <<nSent, payload, files, idx, cur, outputFiles, responses, thrown,
                 cleanup, invoked, stages, temps, fs, now, stack, ret>>
  /\ UNCHANGED <<cleaned, build, served, peer, boot, eng>>

\* The handler parses the formats field and validates the batch.
Validate ==
  /\ hpc = "validate"
  /\ LET check == BatchCheck(Len(files), payload) IN
     IF check.status = 200
       THEN /\ hpc' = "item"
            /\ UNCHANGED <<responses, cleanup>>
       ELSE /\ responses' = Append(responses, ErrorResponse("handler", check.status, check.err))
            /\ hpc' = "cleanup"
            /\ StartCleanup
  /\ UNCHANGED <<nSent, payload, files, idx, cur, outputFiles, thrown,
                 invoked, stages, temps, fs, now, stack, ret>>
  /\ UNCHANGED <<cleaned, build, served, peer, boot, eng>>

\* An error thrown inside the loop reaches the catch block, which answers;
\* the finally block follows.
Catch(err) ==
  /\ responses' = Append(responses, CatchResponse(err))
  /\ thrown' = Append(thrown, <<idx, err>>)
  /\ hpc' = AfterThrow(idx)
  /\ IF AfterThrow(idx) = "cleanup"
       THEN StartCleanup /\ idx' = idx
       ELSE cleanup' = cleanup /\ idx' = idx + 1
  /\ cur' = NoItem
  /\ stages' = <<>>
  /\ temps' = <<>>

\* One iteration of the loop up to the await of fsPromises.access: the
\* descriptor formats[i] is read, checked, and the output path is built.
ItemBegin ==
  /\ hpc = "item" /\ idx < Len(files)
  /\ \E formatInfo \in SentDescriptors, t \in now..MaxNow,
        ext \in {e \in SentExts : FileFilterAccepts(e)} :
       LET file == files[idx + 1]
           inputExt == InputExtOf(ext)
           outputExt == formatInfo.target
           err == ItemCheck(formatInfo.type, outputExt, inputExt)
       IN IF err = NoErr
            THEN /\ cur' = [inputExt |-> inputExt, type |-> formatInfo.type,
                            target |-> outputExt, sub |-> formatInfo.sub,
                            out |-> OutputPath(file.base, t, outputExt)]
                 /\ now' = t
                 /\ hpc' = "access"
                 /\ UNCHANGED <<responses, thrown, cleanup, idx, stages, temps>>
            ELSE /\ Catch(err)
                 /\ now' = now
  /\ UNCHANGED <<nSent, payload, files, outputFiles, invoked, fs, stack, ret>>
  /\ UNCHANGED <<cleaned, build, served, peer, boot, eng>>

\* Something outside the server removes the upload the handler is about to read.
ReaperRemovesUpload ==
  /\ hpc = "access" /\ files[idx + 1].path \in fs
  /\ fs' = fs \ {files[idx + 1].path}
  /\ UNCHANGED <<handlerVars, invoked, stages, temps, now, stack, ret>>
  /\ UNCHANGED <<cleaned, build, served, peer, boot, eng>>

\* fsPromises.access(inputPath) has settled; the item is dispatched.
Access ==
  /\ hpc = "access"
  /\ LET file == files[idx + 1]
         fn == Dispatch(OutputType(cur.target, cur.type))
     IN IF file.path \notin fs
          THEN Catch(Error("Input file not found", <<>>)) /\ stack' = stack
        ELSE IF fn = ""
          THEN Catch(Error("Unsupported conversion type", <<>>)) /\ stack' = stack
        ELSE /\ stack' = <<Frame(fn, file.path, cur.out, cur.target,
                                 IF fn = "convertImage" THEN cur.sub ELSE "none",
                                 cur.inputExt)>>
             /\ hpc' = "await"
             /\ UNCHANGED <<responses, thrown, cleanup, idx, cur, stages, temps>>
  /\ UNCHANGED <<nSent, payload, files, outputFiles, invoked, fs, now, ret>>
  /\ UNCHANGED <<cleaned, build, served, peer, boot, eng>>

\* The awaited converter has settled: the descriptor of the output is pushed
\* and the loop goes on, or the error reaches the catch block.
ItemReturn ==
  /\ hpc = "await" /\ AwaitResult # "none"
  /\ IF AwaitResult = "ok"
       THEN /\ outputFiles' = Append(outputFiles, OutputDescriptor(cur.out, idx))
            /\ idx' = idx + 1
            /\ hpc' = "item"
            /\ cur' = NoItem
            /\ stages' = <<>>
            /\ temps' = <<>>
            /\ UNCHANGED <<responses, thrown, cleanup>>
       ELSE /\ Catch(ret.err)
            /\ UNCHANGED outputFiles
  /\ ret' = NoRet
  /\ UNCHANGED <<nSent, payload, files, invoked, fs, now, stack>>
  /\ UNCHANGED <<cleaned, build, served, peer, boot, eng>>

\* The loop is over: res.json({ files: ... }).
Respond ==
  /\ hpc = "item" /\ idx >= Len(files)
  /\ responses' = Append(responses, FilesResponse(outputFiles))
  /\ hpc' = "cleanup"
  /\ StartCleanup
  /\ UNCHANGED <<nSent, payload, files, idx, cur, outputFiles, thrown,
                 invoked, stages, temps, fs, now, stack, ret>>
  /\ UNCHANGED <<cleaned, build, served, peer, boot, eng>>

\* (variant: a missing file is handled like any other error)
AttemptResultAbsentIsError(c, present, code) ==
  IF ~present \/ code = "EIO" THEN [c EXCEPT !.state = "error"]
  ELSE IF code = "ok" THEN [c EXCEPT !.state = "deleted"]
  ELSE [attempts |-> c.attempts + 1, waited |-> c.waited + RetryDelay,
        state |-> IF c.attempts + 1 >= MaxRetries THEN "gaveup" ELSE "pending"]

\* (variant: the loop condition is attempts <= maxRetries)
AttemptResultOneMore(c, present, code) ==
  IF ~present THEN [c EXCEPT !.state = "absent"]
  ELSE IF code = "ok" THEN [c EXCEPT !.state = "deleted"]
  ELSE IF code = "EPERM"
    THEN [attempts |-> c.attempts + 1, waited |-> c.waited + RetryDelay,
          state |-> IF c.attempts + 1 > MaxRetries THEN "gaveup" ELSE "pending"]
  ELSE [c EXCEPT !.state = "error"]

\* one pass of the while loop of cleanupFiles on a path with the record c:
\* ENOENT returns, a successful unlink returns, EPERM increments attempts
\* and waits retryDelay, any other error breaks out of the loop
AttemptResult(c, present, code) ==
  IF ~present THEN [c EXCEPT !.state = "absent"]
  ELSE IF code = "ok" THEN [c EXCEPT !.state = "deleted"]
  ELSE IF code = "EPERM"
    THEN [attempts |-> c.attempts + 1, waited |-> c.waited + RetryDelay,
          state |-> IF c.attempts + 1 >= MaxRetries THEN "gaveup" ELSE "pending"]
  ELSE [c EXCEPT !.state = "error"]

\* (variant: the output paths are pushed to tempFiles as items complete)
CleanupPathWithOutputs(k) ==
  IF k <= Len(outputFiles) THEN outputFiles[k].path ELSE files[k].path

\* (variant: after a failure the outputs of the batch are rolled back)
CleanupPathRollback(k) ==
  IF thrown # <<>> /\ k <= Len(outputFiles) THEN outputFiles[k].path
  ELSE files[k].path

\* the k-th path handed to cleanupFiles: tempFiles holds req.files' paths
CleanupPath(k) == files[k].path

\* cleanupFiles, one pass of the while loop for the k-th path: access and
\* unlink, ENOENT ends it, EPERM counts an attempt, any other error breaks.
\* The loops of the paths run concurrently and share no state (each touches
\* its own path and its own counter); the model runs them in index order.
CleanupAttempt(k) ==
  /\ hpc = "cleanup" /\ k \in DOMAIN cleanup /\ cleanup[k].state = "pending"
  /\ \A j \in DOMAIN cleanup : j < k => cleanup[j].state # "pending"
  /\ LET p == CleanupPath(k)
         c == cleanup[k]
     IN \E r \in {"ok", "EPERM", "EIO"} :
          /\ p \notin fs => r = "ok"
          /\ fs' = IF r = "ok" THEN fs \ {p} ELSE fs
          /\ cleanup' = [cleanup EXCEPT ![k] = AttemptResult(c, p \in fs, r)]
  /\ UNCHANGED <<hpc, nSent, payload, files, idx, cur, outputFiles, responses,
                 thrown, invoked, stages, temps, now, stack, ret>>
  /\ UNCHANGED <<cleaned, build, served, peer, boot, eng>>

\* Promise.all(cleanupPromises) has settled: the handler is done.
CleanupDone ==
  /\ hpc = "cleanup"
  /\ \A k \in DOMAIN cleanup : cleanup[k].state # "pending"
  /\ hpc' = "done"
  /\ cleaned' = Append(cleaned, cleanup)
  /\ UNCHANGED <<nSent, payload, files, idx, cur, outputFiles, responses, thrown,
                 cleanup, invoked, stages, temps, fs, now, stack, ret>>
  /\ UNCHANGED <<build, served, peer, boot, eng>>

Next ==
  \/ MulterFile
  \/ MulterDone
  \/ Validate
  \/ ItemBegin
  \/ ReaperRemovesUpload
  \/ Access
  \/ ItemReturn
  \/ Respond
  \/ \E k \in 1..MaxFiles : CleanupAttempt(k)
  \/ CleanupDone
  \/ ConverterStep

Spec == Init /\ [][Next]_vars

(***************************************************************************)
(* GET /converted/:filename and DELETE /api/delete/:filename, served while *)
(* a converter runs, in a server running either source.                    *)
(***************************************************************************)
FileName(p) == [stem |-> p.stem, n |-> p.n, ext |-> p.ext]

\* path.join(convertedDir, filename)
ConvertedPath(name) ==
  [dir |-> convertedDir, stem |-> name.stem, n |-> name.n, ext |-> name.ext]

\* the file names a client asks for: those of the files that exist and of
\* the intermediate PDFs
RequestNames == {FileName(p) : p \in fs \cup {temps[j] : j \in 1..Len(temps)}}

\* the decoded :filename parameter of a request: a file name, plain
\* (via = "") or, for a stored upload, behind the "../" segments that lead
\* to its directory via, which a client sends as ..%2FUploads%2F<name>
RequestParams ==
  {[via |-> "", name |-> nm] : nm \in RequestNames}
    \cup {[via |-> p.dir, name |-> FileName(p)] : p \in {q \in fs : q.dir = uploadsDir}}

\* whether the route matches the request: part_001 restricts the parameter
\* to [a-zA-Z0-9-_.]+, which no encoded "/" matches; src/server.js declares
\* a plain :filename, which express matches up to the next "/" and decodes
RouteAccepts(param) == Legacy \/ param.via = ""

\* path.join(convertedDir, filename), which resolves the ".." segments
JoinConverted(param) ==
  IF param.via = "" THEN ConvertedPath(param.name)
  ELSE [dir |-> param.via, stem |-> param.name.stem, n |-> param.name.n,
        ext |-> param.name.ext]

\* GET /converted/:filename: the file is sent when access to it succeeds,
\* otherwise the answer is 404
GetConverted ==
  /\ \E param \in RequestParams :
       /\ RouteAccepts(param)
       /\ LET filePath == JoinConverted(param) IN
          served' = IF filePath \in fs
                      THEN served \cup {[op |-> "get", path |-> filePath,
                                          status |-> 200, done |-> TRUE]}
                      ELSE served
  /\ UNCHANGED <<handlerVars, invoked, stages, temps, fs, now, stack, ret,
                 cleaned, build, peer, boot, eng>>

\* cleanupFiles on one path, run to its end when every unlink of the path
\* meets the same result
RECURSIVE Settle(_, _, _)
Settle(c, present, code) ==
  LET after == AttemptResult(c, present, code) IN
  IF after.state = "pending" THEN Settle(after, present, code) ELSE after

\* (variant: cleanupFiles rethrows the error it could not get past)
CleanupRejectsOnFailure(outcome) == outcome \in {"gaveup", "error"}

\* whether the promise of cleanupFiles rejects when the loop of a path ended
\* in outcome: every error is caught and logged inside the loop
CleanupRejects(outcome) == FALSE

\* the answer of DELETE: 200 when cleanupFiles resolved, 500 from the catch
DeleteResponse(filePath, outcome) ==
  [op |-> "delete", path |-> filePath,
   status |-> IF CleanupRejects(outcome) THEN 500 ELSE 200,
   done |-> outcome = "deleted"]

\* DELETE /api/delete/:filename: await cleanupFiles([filePath]), then the
\* answer
DeleteConverted ==
  /\ \E param \in RequestParams, r \in {"ok", "EPERM", "EIO"} :
       /\ RouteAccepts(param)
       /\ LET filePath == JoinConverted(param)
              outcome == Settle(EnterCleanup({1})[1], filePath \in fs, r).state
          IN /\ fs' = IF outcome = "deleted" THEN fs \ {filePath} ELSE fs
             /\ served' = served \cup {DeleteResponse(filePath, outcome)}
  /\ UNCHANGED <<handlerVars, invoked, stages, temps, now, stack, ret,
                 cleaned, build, peer, boot, eng>>

InitServe == InitCallIn(Builds)

NextServe == ConverterStep \/ CallReturn \/ GetConverted \/ DeleteConverted

SpecServe == InitServe /\ [][NextServe]_vars

(***************************************************************************)
(* The two routes on an idle server: the converted directory holds outputs *)
(* of earlier requests, the scratch directory a leftover intermediate PDF, *)
(* the uploads directory a stored upload.                                  *)
(***************************************************************************)
InitDelete ==
  /\ hpc = "done"
  /\ nSent = 0
  /\ payload = [kind |-> "array", len |-> 0]
  /\ files = <<>>
  /\ idx = 0
  /\ cur = NoItem
  /\ outputFiles = <<>>
  /\ responses = <<>>
  /\ thrown = <<>>
  /\ invoked = {}
  /\ stages = <<>>
  /\ temps = <<>>
  /\ build \in Builds
  /\ fs \in SUBSET {CallOutput("png"), CallOutput("pdf"), TempPdfPath(0),
                    UploadPath(1)}
  /\ now = 0
  /\ stack = <<>>
  /\ ret = NoRet
  /\ cleanup = <<>>
  /\ cleaned = <<>>
  /\ served = {}
  /\ peer = NoPeer
  /\ boot = Booted
  /\ eng = NoEngine

NextDelete == GetConverted \/ DeleteConverted

SpecDelete == InitDelete /\ [][NextDelete]_vars

(***************************************************************************)
(* A request under fair scheduling.  The event loop runs every pending     *)
(* continuation, a library call that computes in the server's process      *)
(* returns, and a subprocess started with a timeout is killed when the     *)
(* timeout expires; a subprocess started without one need never exit, so   *)
(* nothing is assumed about the end of its run.                            *)
(***************************************************************************)
\* the tools that run as an external subprocess
Subprocesses ==
  {"unoconv", "ghostscript-pandoc", "fluent-ffmpeg", "ffmpeg-exec", "7z", "ebook-convert"}

\* execPromise(command, { timeout: 180000, ... }) in tryUnoconvConversion;
\* no other exec, execPromise or spawn is given a timeout
HasTimeout(tool) == tool = "unoconv" /\ ~Legacy

ToolMayNeverExit == stack # <<>> /\ Top.pc = "running"
                      /\ Top.tool \in Subprocesses /\ ~HasTimeout(Top.tool)

Progress == Next /\ ~ToolMayNeverExit

FairSpec == Spec /\ WF_vars(Progress)

(***************************************************************************)
(* cleanupFiles called on a set of paths, and then called again on the     *)
(* same paths.  Every pending continuation of the event loop is run, which *)
(* is the fairness assumed.                                                *)
(***************************************************************************)
InitCleanup ==
  /\ hpc = "cleanup"
  /\ nSent \in 1..MaxBatch
  /\ payload = [kind |-> "array", len |-> 0]
  /\ files = [k \in 1..nSent |-> [base |-> "file", path |-> UploadPath(k)]]
  /\ fs \in SUBSET {UploadPath(k) : k \in 1..nSent}
  /\ cleanup = EnterCleanup(1..nSent)
  /\ cleaned = <<>>
  /\ idx = 0
  /\ cur = NoItem
  /\ outputFiles = <<>>
  /\ responses = <<>>
  /\ thrown = <<>>
  /\ invoked = {}
  /\ stages = <<>>
  /\ temps = <<>>
  /\ now = 0
  /\ stack = <<>>
  /\ ret = NoRet
  /\ build = "part_001"
  /\ served = {}
  /\ peer = NoPeer
  /\ boot = Booted
  /\ eng = NoEngine

\* The first call has returned; the caller calls cleanupFiles again.
CleanupAgain ==
  /\ hpc = "cleanup" /\ cleaned = <<>>
  /\ \A k \in DOMAIN cleanup : cleanup[k].state # "pending"
  /\ cleaned' = <<cleanup>>
  /\ cleanup' = EnterCleanup(DOMAIN cleanup)
  /\ UNCHANGED <<hpc, nSent, payload, files, idx, cur, outputFiles, responses, thrown,
                 invoked, stages, temps, fs, now, stack, ret, build, served, peer,
                 boot, eng>>

NextCleanup ==
  \/ \E k \in 1..MaxFiles : CleanupAttempt(k)
  \/ CleanupAgain
  \/ CleanupDone

SpecCleanup == InitCleanup /\ [][NextCleanup]_vars /\ WF_vars(NextCleanup)

(***************************************************************************)
(* The startup of the server: startLibreOffice, then app.listen after a    *)
(* delay.  No request exists before the server listens.                    *)
(***************************************************************************)
\* no request is being handled and no file exists
NoRequest ==
  /\ hpc = "done"
  /\ nSent = 0
  /\ payload = [kind |-> "array", len |-> 0]
  /\ files = <<>>
  /\ idx = 0
  /\ cur = NoItem
  /\ outputFiles = <<>>
  /\ responses = <<>>
  /\ thrown = <<>>
  /\ invoked = {}
  /\ stages = <<>>
  /\ temps = <<>>
  /\ now = 0
  /\ stack = <<>>
  /\ ret = NoRet
  /\ cleanup = <<>>
  /\ cleaned = <<>>
  /\ build = "part_001"
  /\ served = {}
  /\ peer = NoPeer

requestVars ==
  <<handlerVars, invoked, stages, temps, now, stack, ret, cleaned, build,
    served, peer>>

InitBoot ==
  /\ NoRequest
  /\ fs = {}
  /\ eng = NoEngine
  /\ boot = [pc |-> "loop", attempts |-> 0, log |-> <<>>, waited |-> 0]

\* (variant: the last failure is rethrown to the caller)
AfterStartFailureThrows(attempts) ==
  IF attempts = StartMaxRetries THEN "thrown" ELSE "pause"

\* the catch block of the loop, attempts already incremented: return at
\* maxRetries, otherwise wait and loop
AfterStartFailure(attempts) ==
  IF attempts = StartMaxRetries THEN "returned" ELSE "pause"

\* while (attempts < maxRetries): the libreoffice command is started
StartAttempt ==
  /\ boot.pc = "loop"
  /\ boot' = [boot EXCEPT !.pc = IF boot.attempts < StartMaxRetries
                                    THEN "exec" ELSE "returned"]
  /\ UNCHANGED <<requestVars, fs, eng>>

\* execPromise settles: the command exited with code 0, exited with an
\* error, or was killed at the timeout of 60 s
StartSettles ==
  /\ boot.pc = "exec"
  /\ \E outcome \in {"ok", "exit-code", "timeout"} :
       boot' = IF outcome = "ok"
                 THEN [boot EXCEPT !.pc = "returned", !.log = Append(@, outcome)]
                 ELSE [boot EXCEPT !.pc = AfterStartFailure(boot.attempts + 1),
                                   !.attempts = @ + 1,
                                   !.log = Append(@, outcome)]
  /\ UNCHANGED <<requestVars, fs, eng>>

\* await new Promise(resolve => setTimeout(resolve, 5000))
StartPauseEnds ==
  /\ boot.pc = "pause"
  /\ boot' = [boot EXCEPT !.pc = "loop", !.waited = @ + StartPause]
  /\ UNCHANGED <<requestVars, fs, eng>>

\* the startup block after await startLibreOffice(): setTimeout(listen), or
\* the catch with process.exit(1)
StartupContinues ==
  /\ boot.pc \in {"returned", "thrown"}
  /\ boot' = [boot EXCEPT !.pc = IF boot.pc = "returned" THEN "delay" ELSE "exited"]
  /\ UNCHANGED <<requestVars, fs, eng>>

\* the timer fires: app.listen
Listen ==
  /\ boot.pc = "delay"
  /\ boot' = [boot EXCEPT !.pc = "listening", !.waited = @ + ListenDelay]
  /\ UNCHANGED <<requestVars, fs, eng>>

NextBoot == StartAttempt \/ StartSettles \/ StartPauseEnds \/ StartupContinues \/ Listen

\* every await of the startup settles: the command runs under a timeout,
\* the timers fire
SpecBoot == InitBoot /\ [][NextBoot]_vars /\ WF_vars(NextBoot)

(***************************************************************************)
(* One attempt of a fallback engine of convertDocument, step by step, with *)
(* the files it keeps in the scratch directory.  In the converters above   *)
(* an engine is one tool invocation that writes the output path; here the  *)
(* attempt is followed through its own temporary files.                    *)
(***************************************************************************)
EngineFns == {"tryLibreOfficeConvert", "tryGhostscriptPandoc"}

\* path.join(tempDir, `libreoffice_input_${Date.now()}.${ext of the input}`)
LibreInputPath(t, ext) ==
  [dir |-> tempDir, stem |-> "libreoffice_input", n |-> t, ext |-> ext]

\* fsPromises.mkdtemp(path.join(tempDir, 'gs-'))
GsDirPath == [dir |-> tempDir, stem |-> "gs-", n |-> 0, ext |-> ""]

\* path.join(tempDirPath, 'processed.pdf')
ProcessedPdfPath == [dir |-> "/app/tmp/gs-", stem |-> "processed", n |-> 0, ext |-> "pdf"]

InitEngine ==
  /\ NoRequest
  /\ boot = Booted
  /\ \E fn \in EngineFns, e \in {"", "docx", "pdf"}, fmt \in {"docx", "pdf"},
        present \in BOOLEAN :
       /\ fs = IF present THEN {CallInput(e)} ELSE {}
       /\ eng = [fn |-> fn,
                 pc |-> IF fn = "tryLibreOfficeConvert" THEN "read" ELSE "mkdtemp",
                 inp |-> CallInput(e), out |-> CallOutput(fmt), tmp |-> NoPath,
                 log |-> <<>>, result |-> "pending"]

\* tryLibreOfficeConvert: what follows a step.  A failed readFile, writeFile
\* or chmod throws out of the function and an error of libre.convert rejects
\* at once; the unlink sits in the finally of the output's writeFile
LibreNext(step, outcome) ==
  CASE step = "read" -> IF outcome = "ok" THEN "copy" ELSE "settled"
    [] step = "copy" -> IF outcome = "ok" THEN "convert" ELSE "settled"
    [] step = "convert" -> IF outcome = "ok" THEN "write" ELSE "settled"
    [] step = "write" -> "unlink"
    [] OTHER -> "settled"

\* (variant: the removal is the last statement of the try block)
GsNextNoFinally(step, outcome) ==
  CASE step = "mkdtemp" -> IF outcome = "ok" THEN "gs" ELSE "settled"
    [] step = "gs" -> IF outcome = "ok" THEN "pandoc" ELSE "settled"
    [] step = "pandoc" -> IF outcome = "ok" THEN "rm" ELSE "settled"
    [] OTHER -> "settled"

\* tryGhostscriptPandoc: what follows a step.  mkdtemp is outside the try;
\* the finally block runs the removal after gs or pandoc, failed or not
GsNext(step, outcome) ==
  CASE step = "mkdtemp" -> IF outcome = "ok" THEN "gs" ELSE "settled"
    [] step = "gs" -> IF outcome = "ok" THEN "pandoc" ELSE "rm"
    [] step = "pandoc" -> "rm"
    [] OTHER -> "settled"

\* the attempt after a step: the promise rejects with the first failure of
\* a step other than the cleanup, whose error is caught and logged, and
\* resolves when the output is written
Advance(step, outcome, next) ==
  [eng EXCEPT !.pc = next,
              !.log = Append(@, <<step, outcome>>),
              !.result = IF outcome # "ok" /\ step \notin {"unlink", "rm"} THEN "rejected"
                         ELSE IF step \in {"write", "pandoc"} THEN "resolved"
                         ELSE @]

\* const inputBuf = await fsPromises.readFile(inputPath)
LibreRead ==
  /\ eng.pc = "read"
  /\ \E outcome \in {"ok", "fail"} :
       /\ outcome = "ok" <=> eng.inp \in fs
       /\ eng' = Advance("read", outcome, LibreNext("read", outcome))
  /\ UNCHANGED <<requestVars, fs, boot>>

\* writeFile(tempInputPath, inputBuf), then chmod(tempInputPath, 0o666)
LibreCopy ==
  /\ eng.pc = "copy"
  /\ \E outcome \in {"ok", "write-failed", "chmod-failed"} :
       LET tmp == LibreInputPath(now, PathExt(eng.inp)) IN
       /\ fs' = IF outcome = "write-failed" THEN fs ELSE fs \cup {tmp}
       /\ eng' = [Advance("copy", outcome, LibreNext("copy", outcome))
                    EXCEPT !.tmp = tmp]
  /\ UNCHANGED <<requestVars, boot>>

\* the callback of libre.convert: an error, or the output buffer
LibreConvert ==
  /\ eng.pc = "convert"
  /\ \E outcome \in {"ok", "fail"} :
       eng' = Advance("convert", outcome, LibreNext("convert", outcome))
  /\ UNCHANGED <<requestVars, fs, boot>>

\* fsPromises.writeFile(outputPath, outputBuf).then(resolve).catch(reject)
LibreWrite ==
  /\ eng.pc = "write"
  /\ \E outcome \in {"ok", "fail"} :
       /\ fs' = IF outcome = "ok" THEN fs \cup {eng.out} ELSE fs
       /\ eng' = Advance("write", outcome, LibreNext("write", outcome))
  /\ UNCHANGED <<requestVars, boot>>

\* .finally(() => fsPromises.unlink(tempInputPath).catch(log))
LibreUnlink ==
  /\ eng.pc = "unlink"
  /\ \E outcome \in {"ok", "fail"} :
       /\ fs' = IF outcome = "ok" THEN fs \ {eng.tmp} ELSE fs
       /\ eng' = Advance("unlink", outcome, LibreNext("unlink", outcome))
  /\ UNCHANGED <<requestVars, boot>>

\* const tempDirPath = await fsPromises.mkdtemp(...)
GsMkdtemp ==
  /\ eng.pc = "mkdtemp"
  /\ \E outcome \in {"ok", "fail"} :
       /\ fs' = IF outcome = "ok" THEN fs \cup {GsDirPath} ELSE fs
       /\ eng' = [Advance("mkdtemp", outcome, GsNext("mkdtemp", outcome))
                    EXCEPT !.tmp = IF outcome = "ok" THEN GsDirPath ELSE NoPath]
  /\ UNCHANGED <<requestVars, boot>>

\* gs ... -sOutputFile=processed.pdf inputPath: a failed run may leave a
\* partial processed.pdf
GsRun ==
  /\ eng.pc = "gs"
  /\ \E outcome \in {"ok", "fail"}, partial \in BOOLEAN :
       /\ outcome = "ok" => eng.inp \in fs /\ ~partial
       /\ fs' = IF outcome = "ok" \/ partial THEN fs \cup {ProcessedPdfPath} ELSE fs
       /\ eng' = Advance("gs", outcome, GsNext("gs", outcome))
  /\ UNCHANGED <<requestVars, boot>>

\* pandoc processed.pdf -o outputPath
PandocRun ==
  /\ eng.pc = "pandoc"
  /\ \E outcome \in {"ok", "fail"} :
       /\ fs' = IF outcome = "ok" THEN fs \cup {eng.out} ELSE fs
       /\ eng' = Advance("pandoc", outcome, GsNext("pandoc", outcome))
  /\ UNCHANGED <<requestVars, boot>>

\* finally: fsPromises.rm(tempDirPath, { recursive: true }).catch(log)
GsRemove ==
  /\ eng.pc = "rm"
  /\ \E outcome \in {"ok", "fail"} :
       /\ fs' = IF outcome = "ok" THEN fs \ {eng.tmp, ProcessedPdfPath} ELSE fs
       /\ eng' = Advance("rm", outcome, GsNext("rm", outcome))
  /\ UNCHANGED <<requestVars, boot>>

NextEngine ==
  \/ LibreRead
  \/ LibreCopy
  \/ LibreConvert
  \/ LibreWrite
  \/ LibreUnlink
  \/ GsMkdtemp
  \/ GsRun
  \/ PandocRun
  \/ GsRemove

SpecEngine == InitEngine /\ [][NextEngine]_vars

(***************************************************************************)
(* Properties.                                                             *)
(***************************************************************************)
IsPrefix(a, b) == Len(a) <= Len(b) /\ \A j \in 1..Len(a) : a[j] = b[j]

Front(a) == SubSeq(a, 1, Len(a) - 1)

Contains(seq, x) == \E j \in 1..Len(seq) : seq[j] = x

\* the handler (not multer or express) has answered the request
HandlerAnswered == responses # <<>> /\ responses[1].by = "handler"

\* the converter awaited by the handler for the current item has settled
ItemSettled == hpc = "await" /\ stack = <<>> /\ ret.status # "none"

\* the request is one that batch validation must reject
MalformedBatch ==
  \/ payload.kind = "invalid"
  \/ payload.kind = "array" /\ nSent # payload.len
  \/ nSent > MaxFiles

\* C1: a request whose formats field is not JSON, whose file count differs
\* from its descriptor count, or which carries more than 5 files is rejected
\* as a whole: no tool is ever started for it, nothing is converted, at most
\* one response is sent, and once the request is done exactly one response
\* has been sent and it is an error.
C1_MalformedBatchRejected ==
  MalformedBatch =>
    /\ invoked = {}
    /\ stack = <<>>
    /\ outputFiles = <<>>
    /\ Len(responses) <= 1
    /\ hpc = "done" =>
         /\ Len(responses) = 1
         /\ responses[1].kind = "error"
         /\ responses[1].status >= 400

\* C1 witness: two files with one descriptor, answered 400 by the handler
C1_Witness ==
  /\ hpc = "done"
  /\ payload = [kind |-> "array", len |-> 1]
  /\ Len(files) = 2
  /\ HandlerAnswered
  /\ responses[1].status = 400

\* C2: once the item at index i has thrown, the loop is left for good: no
\* tool is started for a later item, no second error is thrown, and the only
\* response is the error object with the message of item i's error and no
\* descriptors of the items converted before it.
C2_AbortOnFirstError ==
  thrown # <<>> =>
    LET i == thrown[1][1] IN
    /\ Len(thrown) = 1
    /\ idx = i
    /\ hpc \in {"cleanup", "done"}
    /\ stack = <<>>
    /\ \A k \in invoked : k <= i
    /\ responses = <<[by |-> "handler", status |-> 500, kind |-> "error",
                      err |-> thrown[1][2], files |-> <<>>]>>

\* C2 witness: of two items the first fails in a tool; the request is done
C2_Witness ==
  /\ hpc = "done"
  /\ Len(files) = 2
  /\ thrown # <<>>
  /\ thrown[1][1] = 0
  /\ thrown[1][2].tools # <<>>
  /\ invoked = {0}

\* C3: when a request that reached the handler is done, cleanupFiles has
\* been run to the end on the upload path of every file of the batch, and
\* every upload whose deletion did not fail is absent.
C3_UploadsCleaned ==
  (hpc = "done" /\ HandlerAnswered) =>
    /\ DOMAIN cleanup = 1..Len(files)
    /\ \A k \in 1..Len(files) :
         /\ cleanup[k].state # "pending"
         /\ cleanup[k].state \notin {"gaveup", "error"} => files[k].path \notin fs

\* C3 witness: the first of two items threw, the second was never
\* dispatched, and both uploads have been deleted
C3_Witness ==
  /\ hpc = "done"
  /\ Len(files) = 2
  /\ thrown # <<>>
  /\ thrown[1][1] = 0
  /\ cleanup[1].state = "deleted"
  /\ cleanup[2].state = "deleted"

\* the tools started and failed by one call of convertDocument follow the chain
ChainOrder(att, fails) ==
  /\ IsPrefix(att, DocumentEngines)
  /\ IsPrefix(fails, att)
  /\ Len(fails) >= Len(att) - 1

\* C4: convertDocument starts its engines in the order unoconv,
\* libreoffice-convert, Ghostscript+Pandoc, each at most once; an engine is
\* started only when all engines before it have failed; a call that returns
\* normally started no engine after the one that succeeded, and a call that
\* throws after starting engines has started and failed all three.
C4_DocumentChainOrder ==
  /\ \A d \in 1..Len(stack) :
       LET f == stack[d] IN
       f.fn = "convertDocument" =>
         /\ ChainOrder(f.att, f.fails)
         /\ f.pc = "tool" => f.fails = f.att /\ f.tool = DocumentEngines[Len(f.att) + 1]
         /\ f.pc = "running" => f.fails = Front(f.att) /\ f.tool = f.att[Len(f.att)]
  /\ (ret.fn = "convertDocument" /\ ret.att # <<>>) =>
       /\ ChainOrder(ret.att, ret.fails)
       /\ ret.status = "ok" => ret.fails = Front(ret.att)
       /\ ret.status = "err" => ret.att = DocumentEngines /\ ret.fails = DocumentEngines

\* C4 witness: unoconv and libreoffice-convert failed, Ghostscript+Pandoc
\* succeeded, and the call returned normally after three attempts
C4_Witness ==
  /\ ret.fn = "convertDocument"
  /\ ret.status = "ok"
  /\ ret.fails = <<"unoconv", "libreoffice-convert">>
  /\ ret.att = DocumentEngines

\* C5: when all three engines have failed, the error convertDocument throws
\* carries the failure message of each of the three attempts.
C5_AggregateErrorCarriesAttempts ==
  (ret.fn = "convertDocument" /\ ret.status = "err" /\ ret.fails = DocumentEngines) =>
    \A j \in 1..Len(DocumentEngines) : Contains(ret.err.tools, DocumentEngines[j])

\* C6: when a two-stage conversion returns, normally or by throwing, its
\* intermediate PDF does not exist (an unlink that itself failed apart).
C6_IntermediatePdfDeleted ==
  (ret.status # "none" /\ ret.twoStage /\ ~ret.unlinkFailed) => ret.tmp \notin fs

\* the current item is a document-to-image or an image-to-document conversion
NeedsIntermediatePdf ==
  \/ cur.inputExt \in (documentFormats \ {"pdf"}) /\ cur.target \in imageFormats
  \/ cur.inputExt \in imageFormats /\ cur.target \in documentFormats

\* C7: for a non-PDF document converted to an image, and for an image
\* converted to a document, the first stage started writes the
\* intermediate PDF, and a conversion that succeeds ran exactly two stages,
\* the second one reading the intermediate PDF.
C7_TwoStagesThroughPdf ==
  (hpc = "await" /\ NeedsIntermediatePdf /\ stages # <<>>) =>
    /\ stages[1].to = "pdf"
    /\ (ItemSettled /\ ret.status = "ok") =>
         Len(stages) = 2 /\ stages[2].from = "pdf"

\* C8: one call of a converter starts at most two stages and allocates at
\* most one intermediate PDF.
C8_AtMostTwoStages == Len(stages) <= 2 /\ Len(temps) <= 1

\* C9: an item whose source is a PDF and whose target is a raster image or a
\* document format is dispatched to convertPdf.
C9_PdfSourceUsesConvertPdf ==
  (hpc = "await" /\ stack # <<>> /\ cur.inputExt = "pdf"
     /\ cur.target \in (pdfRasterFormats \cup pdfDocumentFormats)) =>
    stack[1].fn = "convertPdf"

\* C10: for an audio, video, archive or ebook source with an image or
\* document target no tool is ever started.
C10_UnconnectedPairStartsNoTool ==
  (hpc \in {"access", "await"}
     /\ cur.inputExt \in (audioFormats \cup videoFormats \cup archiveFormats \cup ebookFormats)
     /\ cur.target \in (imageFormats \cup documentFormats)) =>
    idx \notin invoked

\* the output formats of each conversion category, as the categories are named
CategoryOutputs(type) ==
  CASE type = "image" -> imageFormats
    [] type = "document" -> documentFormats
    [] type = "audio" -> audioFormats
    [] type = "video" -> videoFormats
    [] type = "archive" -> archiveFormats
    [] type = "ebook" -> ebookFormats
    [] type = "compressor" -> {"jpg", "png", "svg"}
    [] OTHER -> allFormats

\* C11: an item whose target is not an output format of its declared
\* category never passes the per-item checks: the handler never reaches the
\* access of its input, let alone a converter or a tool.
C11_TargetOutsideCategoryRejected ==
  (hpc \in {"access", "await"} /\ cur.type \in ConversionTypes) =>
    cur.target \in CategoryOutputs(cur.type)

\* the request was refused because of the extension of one of its files
UnsupportedInputReported ==
  \E j \in 1..Len(responses) :
    responses[j].err.kind \in {"Unsupported file type", "Unsupported input format"}

SecondCleanupRunning == hpc = "cleanup" /\ Len(cleaned) = 1

\* C13 (as stated): the second of two calls of cleanupFiles on the same
\* paths finds every path absent and unlinks nothing.
C13_SecondCleanupFindsAllAbsent ==
  Len(cleaned) = 2 =>
    \A k \in DOMAIN cleaned[2] : cleaned[2][k].state = "absent"

\* C13 (amended): cleanupFiles called twice on the same paths returns
\* normally both times, and the second call finds absent, without an unlink
\* and without a retry, every path that the first call deleted or found
\* absent; a path whose deletion failed in the first call is tried again.
C13_SecondCleanupSkipsDeleted ==
  /\ Len(cleaned) <= 2
  /\ \A j \in 1..Len(cleaned) : \A k \in DOMAIN cleaned[j] :
       cleaned[j][k].state \in {"absent", "deleted", "gaveup", "error"}
  /\ Len(cleaned) >= 1 =>
       \A k \in DOMAIN cleaned[1] :
         cleaned[1][k].state \in {"absent", "deleted"} =>
           /\ SecondCleanupRunning =>
                cleanup[k].state \in {"pending", "absent"} /\ cleanup[k].attempts = 0
           /\ Len(cleaned) = 2 =>
                cleaned[2][k].state = "absent" /\ cleaned[2][k].attempts = 0

\* C13 witness: two calls have returned; a path the first call deleted was
\* found absent by the second, and a path the first call gave up on was
\* deleted by the second
C13_Witness ==
  /\ Len(cleaned) = 2
  /\ hpc = "done"
  /\ \E k \in DOMAIN cleaned[1] :
       cleaned[1][k].state = "deleted" /\ cleaned[2][k].state = "absent"
  /\ \E k \in DOMAIN cleaned[1] :
       cleaned[1][k].state = "gaveup" /\ cleaned[2][k].state = "deleted"

\* what is left of the while loop of cleanupFiles for the path with record c
Remaining(c) == IF c.state = "pending" THEN MaxRetries - c.attempts ELSE 0

\* the state of the loops of one call of cleanupFiles
CleanupWellFormed ==
  \A k \in DOMAIN cleanup :
    LET c == cleanup[k] IN
    /\ c.attempts \in 0..MaxRetries
    /\ c.waited = c.attempts * RetryDelay
    /\ c.state = "gaveup" <=> c.attempts = MaxRetries
    /\ c.state = "absent" => c.attempts = 0
    /\ c.state \in {"absent", "deleted"} => files[k].path \notin fs

\* every pass of a loop of cleanupFiles brings that loop nearer to its end
\* and lets the other loops be
CleanupAdvances ==
  (hpc = "cleanup" /\ hpc' = "cleanup" /\ cleaned' = cleaned) =>
    /\ \A k \in DOMAIN cleanup : Remaining(cleanup'[k]) <= Remaining(cleanup[k])
    /\ \E k \in DOMAIN cleanup : Remaining(cleanup'[k]) < Remaining(cleanup[k])

\* C14: cleanupFiles ends its loop for a missing file at once and without a
\* retry; each EPERM counts one attempt and waits the fixed retryDelay; a
\* path is given up exactly when 3 attempts have met EPERM; every pass
\* brings the loop nearer to its end, and with every pending continuation
\* run the call returns normally.
C14_CleanupRetriesAndTerminates ==
  /\ []CleanupWellFormed
  /\ [][CleanupAdvances]_vars
  /\ <>(hpc = "done")

\* C14 witness: the call has returned after giving up on one path at the
\* third EPERM, having found another path missing
C14_Witness ==
  /\ hpc = "done"
  /\ \E k \in DOMAIN cleanup :
       cleanup[k].state = "gaveup" /\ cleanup[k].attempts = MaxRetries
         /\ cleanup[k].waited = MaxRetries * RetryDelay
  /\ \E k \in DOMAIN cleanup : cleanup[k].state = "absent"

\* the converters of the categories that are said to have a single adapter
SingleAdapterFns == {"convertImage", "convertMedia", "convertArchive", "convertEbook"}

\* C15: a call of the image, audio/video, archive or ebook converter starts
\* at most one tool: when that tool fails the call fails, and no second
\* tool is started.
C15_SingleAdapterNoFallback ==
  /\ \A d \in 1..Len(stack) :
       stack[d].fn \in SingleAdapterFns => Len(stack[d].att) <= 1
  /\ ret.fn \in SingleAdapterFns => Len(ret.att) <= 1

\* C16: every tool that runs as a subprocess runs under a timeout, and
\* every request is eventually answered and done.
C16_SubprocessesTimedAndRequestDone ==
  /\ [](\A d \in 1..Len(stack) :
          (stack[d].pc = "running" /\ stack[d].tool \in Subprocesses) =>
            HasTimeout(stack[d].tool))
  /\ <>(hpc = "done" /\ responses # <<>>)

\* C17: the items converted by a request have pairwise distinct output paths.
C17_DistinctOutputPaths ==
  \A i, j \in 1..Len(outputFiles) :
    i # j => outputFiles[i].path # outputFiles[j].path

\* C18: no intermediate PDF of a two-stage conversion is ever sent by
\* GET /converted/:filename or removed by DELETE /api/delete/:filename.
C18_IntermediatesNotServed ==
  \A s \in served : s.done => s.path \notin {temps[j] : j \in 1..Len(temps)}

\* C19: every ffmpeg run that convertMedia starts for a source extension of
\* the audio list and a video container target has the synthesized black
\* video among its inputs.
C19_AudioToVideoSynthesizesVideo ==
  \A d \in 1..Len(stack) :
    LET f == stack[d] IN
    (f.fn = "convertMedia" /\ f.pc = "running"
       /\ f.iext \in audioFormats /\ f.fmt \in videoFormats) =>
      "black-video" \in FfmpegInputs(f.tool, f.iext, f.fmt)

\* C20: convertArchive starts the packer only for the targets zip and 7z,
\* and then at most once; called with any other target it throws the
\* unsupported-archive-format error without having started a tool, and the
\* item it was dispatched for fails with that error.
C20_ArchiveOnlyZipOr7z ==
  /\ \A d \in 1..Len(stack) :
       LET f == stack[d] IN
       f.fn = "convertArchive" =>
         /\ f.pc \in {"tool", "running"} => f.fmt \in archiveFormats /\ f.tool = "7z"
         /\ f.att \in {<<>>, <<"7z">>}
  /\ (ItemSettled /\ ret.fn = "convertArchive") =>
       IF cur.target \in archiveFormats
         THEN ret.att = <<"7z">>
         ELSE /\ ret.status = "err"
              /\ ret.err = Error("Unsupported archive format", <<>>)
              /\ ret.att = <<>>
              /\ idx \notin invoked

\* C20 witness: an item of declared type archive with target epub was
\* dispatched to convertArchive, which threw without starting the packer
C20_Witness ==
  /\ ItemSettled
  /\ ret.fn = "convertArchive"
  /\ cur.type = "archive"
  /\ cur.target = "epub"
  /\ ret.status = "err"
  /\ invoked = {}

\* C21: every request the convert handler handles gets exactly one response:
\* either the list of one descriptor per file, in input order, entry i
\* carrying the id of descriptor i, or one error object with an error
\* status; never both and never a shorter list.
C21_ExactlyOneResponse ==
  /\ Len(responses) <= 1
  /\ hpc \in {"cleanup", "done"} => Len(responses) = 1
  /\ \A j \in DOMAIN responses :
       LET r == responses[j] IN
       r.by = "handler" =>
         \/ /\ r.kind = "files" /\ r.status = 200 /\ r.err = NoErr
            /\ thrown = <<>>
            /\ Len(r.files) = Len(files)
            /\ \A i \in DOMAIN r.files :
                 /\ r.files[i].id = i - 1
                 /\ r.files[i].path.dir = convertedDir
                 /\ r.files[i].path.stem = files[i].base
         \/ /\ r.kind = "error" /\ r.status >= 400
            /\ r.err # NoErr /\ r.files = <<>>

C21_Witness ==
  /\ hpc = "done" /\ Len(files) = 2 /\ Len(responses) = 1
  /\ responses[1].kind = "files" /\ Len(responses[1].files) = 2
  /\ responses[1].files[2].id = 1

\* a response of the handler that rejects the batch for its counts
MismatchRejected ==
  /\ responses # <<>>
  /\ responses[1].err.kind = "Mismatch between files and formats"

\* C22: whenever a request is rejected because the number of files differs
\* from the number of descriptors, the message names both counts as numbers,
\* for every payload that parses as JSON.
C22_MismatchNamesBothCounts ==
  MismatchRejected =>
    LET args == responses[1].err.args IN
    /\ Len(args) = 2
    /\ args[1] = Interpolated(TRUE, Len(files))
    /\ args[2].num

\* C23: in every multi-stage conversion the final stage writes the file with
\* the requested target extension, and the intermediate path is distinct
\* from both the source path and the final output path of that conversion.
C23_IntermediateDistinctFromSourceAndOutput ==
  \A d \in DOMAIN stack :
    LET f == stack[d] IN
    f.tmp # NoPath =>
      /\ f.tmp # f.inp
      /\ f.tmp # f.out
      /\ (f.pc = "s2" /\ d < Len(stack)) =>
           /\ stack[d + 1].out = f.out
           /\ stack[d + 1].fmt = f.fmt

\* validation, conversions, response and cleanup follow each other: a tool
\* runs only in a validated batch, nothing runs once the response is sent,
\* cleanupFiles starts after the response and is not run twice
StepsInOrder ==
  /\ (invoked # {} \/ hpc \in {"item", "access", "await"})
       => BatchCheck(Len(files), payload).status = 200
  /\ stack # <<>> => hpc = "await"
  /\ responses # <<>> => stack = <<>> /\ hpc \in {"cleanup", "done"}
  /\ (hpc = "cleanup" \/ cleaned # <<>>) => responses # <<>>
  /\ Len(cleaned) <= 1
  /\ cleaned # <<>> => hpc = "done"

\* C24 as stated: in every request the steps occur in the order validation,
\* conversions, response, upload cleanup, and cleanup runs exactly once per
\* request.
C24_EveryRequestCleanedOnce ==
  /\ StepsInOrder
  /\ hpc = "done" => Len(cleaned) = 1

\* C24: in every request that reaches the convert handler the steps occur in
\* the order validation, conversions, response, upload cleanup: no tool is
\* started after the response, cleanupFiles starts only after the response
\* and runs exactly once.  (A request that multer rejects never reaches the
\* handler: cleanupFiles does not run for it.)
C24_HandledRequestCleanedOnce ==
  /\ StepsInOrder
  /\ (hpc = "done" /\ HandlerAnswered) => Len(cleaned) = 1
  /\ (hpc = "done" /\ ~HandlerAnswered) => Len(cleaned) = 0

C24_Witness ==
  /\ hpc = "done" /\ HandlerAnswered /\ Len(cleaned) = 1
  /\ responses[1].kind = "files" /\ invoked = {0, 1}

\* C25: within one batch request at most one tool invocation is in flight:
\* the frames under the top of the call stack wait for their callee, the
\* conversion of item i+1 starts only when that of item i has completed.
C25_OneConversionAtATime ==
  /\ \A d \in DOMAIN stack :
       d < Len(stack) => stack[d].pc \in {"s1", "s2", "tail"}
  /\ stack # <<>> => hpc = "await"
  /\ hpc \in {"item", "access"} => stack = <<>> /\ ret = NoRet
  /\ invoked \subseteq 0..idx
  /\ thrown = <<>> => Len(outputFiles) = idx

C25_Witness ==
  /\ hpc = "await" /\ idx = 1 /\ Len(outputFiles) = 1
  /\ stack # <<>> /\ Top.pc = "running"

\* C26: when requests run concurrently, no two conversions in flight hold
\* the same intermediate path temp_<Date.now()>.pdf, so that a pipeline never
\* overwrites, consumes or deletes the intermediate PDF of another request.
C26_ScratchPathsNotShared ==
  peer.pc \in {"s1", "s2"} =>
    \A d \in DOMAIN stack : stack[d].tmp # peer.tmp

\* the outputs named in a success response exist
ReportedOutputsExist ==
  (hpc \in {"cleanup", "done"} /\ HandlerAnswered /\ responses[1].kind = "files")
    => \A i \in DOMAIN responses[1].files : responses[1].files[i].path \in fs

\* C27: the cleanup of the convert handler deletes only paths inside the
\* uploads directory and leaves every file of the converted directory in
\* place: cleanupFiles is handed upload paths only, every output written so
\* far exists in every later state of the request, and an output reported
\* in a success response exists when the request is done.
C27_CleanupLeavesConvertedFiles ==
  /\ \A k \in DOMAIN cleanup : CleanupPath(k).dir = uploadsDir
  /\ \A i \in DOMAIN outputFiles : outputFiles[i].path \in fs
  /\ ReportedOutputsExist

C27_Witness ==
  /\ hpc = "done" /\ HandlerAnswered /\ responses[1].kind = "files"
  /\ Len(responses[1].files) = 2
  /\ cleaned[1][1].state = "deleted"
  /\ files[1].path \notin fs
  /\ responses[1].files[1].path \in fs

\* C28: every image conversion whose source is an SVG goes through the SVG
\* optimizer and never through the raster engine, whatever the target image
\* format and the subSection.
C28_SvgSourceUsesSvgo ==
  \A d \in DOMAIN stack :
    LET f == stack[d] IN
    (f.fn = "convertImage" /\ PathExt(f.inp) = "svg" /\ f.tool # "")
      => f.tool = "svgo"

\* C29: every error response of the convert handler, for a batch-validation
\* failure or for a per-item failure of any kind, carries a non-empty error
\* string.
C29_ErrorResponsesCarryMessage ==
  /\ \A j \in DOMAIN responses :
       (responses[j].by = "handler" /\ responses[j].kind = "error")
         => /\ responses[j].err.kind # ""
            /\ responses[j].status \in {400, 500}
  /\ (thrown # <<>> /\ responses # <<>>) => responses[1].err.kind # ""

C29_Witness ==
  /\ hpc = "done" /\ HandlerAnswered /\ responses[1].kind = "error"
  /\ thrown # <<>> /\ thrown[1][1] = 1
  /\ responses[1].err.tools # <<>>

\* C30: cleanupFiles never rejects, whatever error the filesystem returns:
\* DELETE /api/delete/:filename always answers 200, also when the file never
\* existed or could not be deleted; its 500 branch is never taken.
C30_DeleteAlwaysAnswers200 ==
  \A s \in served : s.op = "delete" => s.status = 200

C30_Witness ==
  /\ \E s \in served :
       s.op = "delete" /\ s.status = 200 /\ ~s.done /\ s.path \in fs
  /\ \E s \in served :
       /\ s.op = "delete" /\ s.status = 200 /\ ~s.done /\ s.path \notin fs
       /\ \A u \in served : u.path = s.path => ~u.done

\* no step removes a file of the converted directory
ConvertedFilesKept ==
  \A p \in fs : p.dir = convertedDir => p \in fs'

\* after a failed item the outputs of the items before it exist, and the
\* error response names no file
FailureLeavesOutputs ==
  (thrown # <<>> /\ responses # <<>>) =>
    /\ responses[1].kind = "error" /\ responses[1].files = <<>>
    /\ Len(outputFiles) = thrown[1][1]
    /\ \A i \in DOMAIN outputFiles : outputFiles[i].path \in fs

\* C31: when item i of a batch fails, the outputs written for the items
\* before it, and any partial output of item i, stay in the converted
\* directory and are not named in the error response: no step of the
\* request removes a converted file.
C31_FailureKeepsConvertedOutputs ==
  /\ [][ConvertedFilesKept]_vars
  /\ []FailureLeavesOutputs

C31_Witness ==
  /\ hpc = "done" /\ thrown # <<>> /\ thrown[1][1] = 1
  /\ Len(outputFiles) = 1 /\ outputFiles[1].path \in fs
  /\ \E p \in fs : p.dir = convertedDir /\ p # outputFiles[1].path
  /\ responses[1].kind = "error"

\* the converter the handler awaits for a descriptor
AdapterFor(type, target) == Dispatch(OutputType(target, type))

\* the handler has accepted the current item
ItemAccepted == hpc \in {"access", "await"}

\* C32: the converter chosen for an item is a function of the target alone
\* whenever the target is an image, document, audio or video extension:
\* every declared type that accepts the target leads to the same converter;
\* the declared type selects the converter only for zip, 7z, epub, mobi and
\* azw3.
C32_AdapterFollowsTarget ==
  /\ (hpc = "await" /\ stack # <<>>) => stack[1].fn = AdapterFor(cur.type, cur.target)
  /\ ItemAccepted =>
       IF cur.target \in imageFormats \cup documentFormats \cup audioFormats
                           \cup videoFormats
         THEN \A type \in ConversionTypes :
                cur.target \in supportedFormats(type)
                  => AdapterFor(type, cur.target) = AdapterFor(cur.type, cur.target)
         ELSE /\ cur.target \in {"zip", "7z", "epub", "mobi", "azw3"}
              /\ AdapterFor(cur.type, cur.target) = Dispatch(cur.type)
              /\ \E type \in ConversionTypes :
                   AdapterFor(type, cur.target) # AdapterFor(cur.type, cur.target)

C32_Witness ==
  /\ hpc = "await" /\ stack # <<>>
  /\ cur.type = "pdfs" /\ cur.target = "png"
  /\ stack[1].fn = "convertImage"

\* C33: no item of a request is completed successfully by convertPdf: the
\* handler awaits convertPdf only for the declared type pdfs with a target
\* among zip, 7z, epub, mobi, azw3, and convertPdf rejects each of them.
C33_ConvertPdfNeverCompletesItem ==
  /\ (hpc = "await" /\ stack # <<>> /\ stack[1].fn = "convertPdf") =>
       /\ cur.type = "pdfs"
       /\ cur.target \in archiveFormats \cup ebookFormats
  /\ (ItemSettled /\ ret.fn = "convertPdf") =>
       /\ ret.status = "err"
       /\ ret.err.kind \in {"Unsupported PDF output format",
                             "Document conversion failed after all attempts"}

C33_Witness ==
  /\ ItemSettled /\ ret.fn = "convertPdf" /\ ret.status = "err"
  /\ ret.err.kind = "Unsupported PDF output format"
  /\ cur.type = "pdfs" /\ cur.target = "zip"

\* the start attempts: at most maxRetries, one pause of 5 s after each
\* failure but the last, no throw and no process exit
StartBounded ==
  /\ boot.pc \notin {"thrown", "exited"}
  /\ Len(boot.log) <= StartMaxRetries
  /\ boot.attempts <= StartMaxRetries
  /\ boot.attempts = Cardinality({j \in DOMAIN boot.log : boot.log[j] # "ok"})
  /\ \A j \in DOMAIN boot.log : boot.log[j] = "ok" => j = Len(boot.log)
  /\ boot.pc \in {"loop", "exec"} => boot.waited = StartPause * boot.attempts
  /\ boot.pc = "pause" => boot.waited = StartPause * (boot.attempts - 1)
  /\ boot.pc = "listening" =>
       boot.waited = ListenDelay
                       + StartPause * (IF boot.attempts = StartMaxRetries
                                         THEN StartMaxRetries - 1 ELSE boot.attempts)

\* C34: startLibreOffice makes at most 5 start attempts separated by a fixed
\* pause of 5 s and never throws; the server then starts listening whether or
\* not an attempt succeeded, and the startup block never exits the process.
C34_StartupBoundedThenListens ==
  /\ []StartBounded
  /\ <>(boot.pc = "listening")

C34_Witness ==
  /\ boot.pc = "listening"
  /\ boot.attempts = StartMaxRetries
  /\ \A j \in DOMAIN boot.log : boot.log[j] # "ok"

\* C35: for every filename the GET /converted and DELETE /api/delete routes
\* accept, the path served or deleted is a file directly inside the converted
\* directory: no request reads or deletes a path of the uploads directory,
\* of the scratch directory or anywhere else.
C35_RoutesStayInConvertedDir ==
  \A s \in served : s.done => s.path.dir = convertedDir

\* C36: the temporary input copy that tryLibreOfficeConvert writes into the
\* scratch directory is deleted on every outcome of the attempt: conversion
\* error reported by the library, failure to write the output, or success.
C36_LibreInputCopyDeleted ==
  (/\ eng.fn = "tryLibreOfficeConvert" /\ eng.pc = "settled"
   /\ Contains(eng.log, <<"copy", "ok">>)
   /\ ~Contains(eng.log, <<"unlink", "fail">>))
    => eng.tmp \notin fs

\* C37: tryGhostscriptPandoc removes its scratch directory, with the
\* processed.pdf inside, on every exit path: Ghostscript failure, Pandoc
\* failure or success; a failure of the removal does not change the outcome
\* of the attempt.
C37_GsScratchDirRemoved ==
  (/\ eng.fn = "tryGhostscriptPandoc" /\ eng.pc = "settled"
   /\ Contains(eng.log, <<"mkdtemp", "ok">>))
    => /\ \E outcome \in {"ok", "fail"} : Contains(eng.log, <<"rm", outcome>>)
       /\ Contains(eng.log, <<"rm", "ok">>)
            => eng.tmp \notin fs /\ ProcessedPdfPath \notin fs
       /\ eng.result = IF /\ Contains(eng.log, <<"gs", "ok">>)
                          /\ Contains(eng.log, <<"pandoc", "ok">>)
                         THEN "resolved" ELSE "rejected"

C37_Witness ==
  /\ eng.fn = "tryGhostscriptPandoc" /\ eng.pc = "settled"
  /\ Contains(eng.log, <<"pandoc", "fail">>)
  /\ Contains(eng.log, <<"rm", "ok">>)
  /\ eng.result = "rejected"
  /\ GsDirPath \notin fs /\ ProcessedPdfPath \notin fs

====
